---- MODULE Spec2Model ----
(***************************************************************************)
(* A model of the two Blender scripts of the repository:                   *)
(*   .blender/generate_tunnel.py  the procedural tunnel generator          *)
(*   .blender/render_scene.py     the per-camera render driver             *)
(* Python floats are modelled as binary floating point with a significand  *)
(* of MantBits bits and round-to-nearest-even (IEEE doubles have 53 bits). *)
(* Names and paths are sequences of one-character strings, so that prefix, *)
(* substring and concatenation are computed as the scripts compute them.   *)
(***************************************************************************)
EXTENDS Integers, Sequences, FiniteSets, TLC

\* ------------------------------------------------------------------ bounds
MantBits == 6
MaxCount == 5
MaxTenths == 12

\* ------------------------------------------------- rationals and floats
RECURSIVE Pow2(_)
Pow2(k) == IF k <= 0 THEN 1 ELSE 2 * Pow2(k - 1)

Abs(x) == IF x < 0 THEN -x ELSE x

Max(a, b) == IF a >= b THEN a ELSE b

RECURSIVE GCD(_, _)
GCD(a, b) == IF b = 0 THEN a ELSE GCD(b, a % b)

\* A rational is <<num, den>> with den > 0, kept in lowest terms.
Reduce(r) ==
    LET g == GCD(Abs(r[1]), r[2])
    IN  IF g = 0 THEN <<0, 1>> ELSE <<r[1] \div g, r[2] \div g>>

RAdd(a, b) == Reduce(<<a[1] * b[2] + b[1] * a[2], a[2] * b[2]>>)
RSub(a, b) == Reduce(<<a[1] * b[2] - b[1] * a[2], a[2] * b[2]>>)
RMul(a, b) == Reduce(<<a[1] * b[1], a[2] * b[2]>>)
RDiv(a, b) == Reduce(<<a[1] * b[2], a[2] * b[1]>>)
RInt(n) == <<n, 1>>
RLess(a, b) == a[1] * b[2] < b[1] * a[2]
RLeq(a, b) == a[1] * b[2] <= b[1] * a[2]
RAbs(a) == <<Abs(a[1]), a[2]>>

\* A float is <<m, e>>, the value m * 2^e with 2^(MantBits-1) <= m < 2^MantBits
\* (only positive finite values occur in the scripts' angle arithmetic).
Rat(x) == IF x[2] >= 0 THEN <<x[1] * Pow2(x[2]), 1>> ELSE Reduce(<<x[1], Pow2(-x[2])>>)

\* Python's round() on a value num/den: nearest integer, ties to even.
RoundHalfEven(num, den) ==
    LET q == num \div den
        r == num - q * den
    IN  IF 2 * r < den THEN q
        ELSE IF 2 * r > den THEN q + 1
        ELSE IF q % 2 = 0 THEN q ELSE q + 1

RECURSIVE Normalize(_, _, _)
Normalize(num, den, e) ==
    IF num < Pow2(MantBits - 1) * den THEN Normalize(2 * num, den, e - 1)
    ELSE IF num >= Pow2(MantBits) * den THEN Normalize(num, 2 * den, e + 1)
    ELSE <<num, den, e>>

\* The float nearest to the positive rational r (round to nearest, ties to even).
FRound(r) ==
    LET s == Normalize(r[1], r[2], 0)
        m == RoundHalfEven(s[1], s[2])
    IN  IF m = Pow2(MantBits) THEN <<Pow2(MantBits - 1), s[3] + 1>> ELSE <<m, s[3]>>

FAdd(a, b) == FRound(RAdd(Rat(a), Rat(b)))
FMul(a, b) == FRound(RMul(Rat(a), Rat(b)))
FDiv(a, b) == FRound(RDiv(Rat(a), Rat(b)))
FInt(n) == FRound(RInt(n))

\* ------------------------------------------------------------ strings
StartsWith(s, p) == Len(s) >= Len(p) /\ SubSeq(s, 1, Len(p)) = p

Contains(s, p) == \E i \in 1..(Len(s) - Len(p) + 1) : SubSeq(s, i, i + Len(p) - 1) = p

RemovePrefix(s, p) == IF StartsWith(s, p) THEN SubSeq(s, Len(p) + 1, Len(s)) ELSE s

S_SegmentRegular == <<"S", "e", "g", "m", "e", "n", "t", " ", "(", "R", "e", "g", "u", "l", "a", "r", ")">>
S_SegmentKey == <<"S", "e", "g", "m", "e", "n", "t", " ", "(", "K", "e", "y", ")">>
S_BoltPocketTop == <<"B", "o", "l", "t", " ", "P", "o", "c", "k", "e", "t", " ", "(", "T", "o", "p", ")">>
S_BoltPocketBottom == <<"B", "o", "l", "t", " ", "P", "o", "c", "k", "e", "t", " ", "(", "B", "o", "t", "t", "o", "m", ")">>
S_HandleHoleTop == <<"H", "a", "n", "d", "l", "e", " ", "H", "o", "l", "e", " ", "(", "T", "o", "p", ")">>
S_HandleHoleBottom == <<"H", "a", "n", "d", "l", "e", " ", "H", "o", "l", "e", " ", "(", "B", "o", "t", "t", "o", "m", ")">>
S_BoltPocket == <<"B", "o", "l", "t", " ", "P", "o", "c", "k", "e", "t">>
S_HandleHole == <<"H", "a", "n", "d", "l", "e", " ", "H", "o", "l", "e">>
S_TunnelController == <<"T", "u", "n", "n", "e", "l", " ", "C", "o", "n", "t", "r", "o", "l", "l", "e", "r">>
S_TunnelRing == <<"T", "u", "n", "n", "e", "l", "R", "i", "n", "g">>
S_SegReg == <<"S", "e", "g", "R", "e", "g">>
S_SegKey == <<"S", "e", "g", "K", "e", "y">>
S_RingGuide == <<"R", "i", "n", "g", "G", "u", "i", "d", "e">>
S_TBM_Ring == <<"T", "B", "M", "_", "R", "i", "n", "g">>
S_RingBase == <<"R", "i", "n", "g", "B", "a", "s", "e">>
S_TBM_Tunnel == <<"T", "B", "M", "_", "T", "u", "n", "n", "e", "l">>
S_Tunnel == <<"T", "u", "n", "n", "e", "l">>
S_TBM_TunnelAlongZ == <<"T", "B", "M", "_", "T", "u", "n", "n", "e", "l", "A", "l", "o", "n", "g", "Z">>
S_TBM_TunnelProcedural == <<"T", "B", "M", "_", "T", "u", "n", "n", "e", "l", "P", "r", "o", "c", "e", "d", "u", "r", "a", "l">>
S_Mesh == <<"_", "M", "e", "s", "h">>
S_BoltPocketOpen == <<"B", "o", "l", "t", " ", "P", "o", "c", "k", "e", "t", " ", "(">>
S_HandleHoleOpen == <<"H", "a", "n", "d", "l", "e", " ", "H", "o", "l", "e", " ", "(">>
S_CloseDash == <<")", " ", "-", " ">>
S_Back == <<"B", "a", "c", "k">>
S_Front == <<"F", "r", "o", "n", "t">>
S_Regular == <<"R", "e", "g", "u", "l", "a", "r">>
S_Key == <<"K", "e", "y">>
S_Cylinder == <<"C", "y", "l", "i", "n", "d", "e", "r">>
S_Cube == <<"C", "u", "b", "e">>
S_TunnelController_Mesh == <<"T", "u", "n", "n", "e", "l", "C", "o", "n", "t", "r", "o", "l", "l", "e", "r", "_", "M", "e", "s", "h">>
S_Dot == <<".">>
S_Underscore == <<"_">>
S_Camera_ == <<"C", "a", "m", "e", "r", "a", "_">>
S_noimp == <<"-", "n", "o", "i", "m", "p">>
S_Zero == <<"0">>
S_renders == <<"r", "e", "n", "d", "e", "r", "s", "/">>
S_Slash == <<"/">>
S_HashUnderscore == <<"#", "_">>
S_MistHash == <<"m", "_", "#", "_">>
S_ViewLayer == <<"V", "i", "e", "w", "L", "a", "y", "e", "r">>
S_main == <<"m", "a", "i", "n">>
S_left == <<"l", "e", "f", "t">>
S_right == <<"r", "i", "g", "h", "t">>
S_puzzles == <<"p", "u", "z", "z", "l", "e", "s", "/">>
S_SlashSlash == <<"/", "/">>

\* ---------------------------------------------------------------- state
VARIABLES
    \* generate_tunnel.py
    regular_count,      \* user setting
    key_angle_factor,   \* user setting (a float)
    regular_angle_deg,  \* derived angle (a float), <<>> before it is computed
    key_angle_deg,      \* derived angle (a float), <<>> before it is computed
    gpc,                \* position of the generator script
    run,                \* how many times the script has been started
    objects,            \* bpy.data.objects: id -> object
    meshes,             \* bpy.data.meshes: id -> mesh
    collections,        \* bpy.data.collections: id -> collection
    node_groups,        \* bpy.data.node_groups: id -> node group
    nextId,             \* next fresh data-block id
    active_coll,        \* the context's active collection (0: the scene collection)
    g,                  \* the script's module-level references
    \* render_scene.py
    filepath,           \* bpy.data.filepath
    cwd_rel,            \* the working directory, relative to the .blend file's
    cameras,            \* the camera objects of bpy.data.objects, in order
    env_cameras,        \* the CAMERAS environment variable (<<>>: unset or empty)
    name,               \* the display name of the .blend file
    default_frame_end,  \* scene.frame_end when the script started
    rpc,                \* position of the render driver
    cam_idx,            \* index of the camera the loop is at
    scene,              \* samples, views, camera, frame_end
    view_layers,        \* scene.view_layers
    nodes,              \* scene.node_tree.nodes
    links,              \* scene.node_tree.links
    renders,            \* the renders triggered so far
    assigned            \* the cameras the script assigned to scene.camera so far

genVars == <<regular_count, key_angle_factor, regular_angle_deg, key_angle_deg, gpc, run,
             objects, meshes, collections, node_groups, nextId, active_coll, g>>
renderVars == <<filepath, cwd_rel, cameras, env_cameras, name, default_frame_end, rpc, cam_idx, scene,
                view_layers, nodes, links, renders, assigned>>
vars == <<genVars, renderVars>>

\* ------------------------------------------------------------ bpy.data
\* object:     [name, kind, data (mesh id, 0: none), colls (ids; 0 is the scene
\*             collection), run (the run that created it, 0: not the script),
\*             t (angular position, in units of pi), mods (modifiers)]
\* mesh:       [name, run, fake (fake user), steps, verts, faces]
\* collection: [name, run]
\* node group: [name, run, inputs, nodes, links]
Data(o, m, c, n) == [objects |-> o, meshes |-> m, collections |-> c, node_groups |-> n, err |-> FALSE]

Without(f, x) == [k \in DOMAIN f \ {x} |-> f[k]]

With(f, x, v) == [k \in DOMAIN f \cup {x} |-> IF k = x THEN v ELSE f[k]]

RECURSIVE SeqOf(_)
SeqOf(S) ==
    IF S = {} THEN <<>>
    ELSE LET m == CHOOSE x \in S : \A y \in S : x <= y
         IN  <<m>> \o SeqOf(S \ {m})

NamesOf(f) == {f[k].name : k \in DOMAIN f}

Digit(k) == <<"0", "1", "2", "3", "4", "5", "6", "7", "8", "9">>[k + 1]

NumSuffix(k) == <<".", "0", "0", Digit(k)>>

RECURSIVE FirstFree(_, _, _)
FirstFree(n, used, k) ==
    IF (n \o NumSuffix(k)) \notin used THEN n \o NumSuffix(k) ELSE FirstFree(n, used, k + 1)

\* The name a new data-block gets: the host keeps the names of one kind unique
\* by appending .001, .002, ...
UniqueName(n, used) == IF n \notin used THEN n ELSE FirstFree(n, used, 1)

MeshUsers(d, m) ==
    Cardinality({o \in DOMAIN d.objects : d.objects[o].data = m})
    + (IF d.meshes[m].fake THEN 1 ELSE 0)

CollObjects(d, c) == {o \in DOMAIN d.objects : c \in d.objects[o].colls}

UnlinkObjectFromMods(ms, o) ==
    [i \in DOMAIN ms |-> IF ms[i].object = o THEN [ms[i] EXCEPT !.object = 0] ELSE ms[i]]

\* bpy.data.objects.remove(obj, do_unlink=True)
RemoveObject(d, o) ==
    [d EXCEPT !.objects =
        [k \in DOMAIN d.objects \ {o} |->
            [d.objects[k] EXCEPT !.mods = UnlinkObjectFromMods(d.objects[k].mods, o)]]]

\* bpy.data.collections.remove(coll)
RemoveCollection(d, c) ==
    [d EXCEPT !.collections = Without(d.collections, c),
              !.objects = [k \in DOMAIN d.objects |->
                              [d.objects[k] EXCEPT !.colls = d.objects[k].colls \ {c}]]]

\* bpy.data.node_groups.remove(ng, do_unlink=True)
RemoveNodeGroup(d, n) ==
    [d EXCEPT !.node_groups = Without(d.node_groups, n),
              !.objects = [k \in DOMAIN d.objects |->
                  [d.objects[k] EXCEPT !.mods =
                      [i \in DOMAIN d.objects[k].mods |->
                          IF d.objects[k].mods[i].node_group = n
                          THEN [d.objects[k].mods[i] EXCEPT !.node_group = 0]
                          ELSE d.objects[k].mods[i]]]]]

\* ------------------------------------------------------------ clean_old
kill_names ==
    {S_SegmentRegular, S_SegmentKey, S_BoltPocketTop, S_BoltPocketBottom,
     S_HandleHoleTop, S_HandleHoleBottom, S_BoltPocket, S_HandleHole,
     S_TunnelController, S_TunnelRing, S_SegReg, S_SegKey, S_RingGuide,
     S_TBM_Ring, S_RingBase, S_TBM_Tunnel}

\* Variant: the Tunnel collection not cleaned
kill_collections_RingOnly == {S_TBM_Ring}

kill_collections == {S_TBM_Ring, S_Tunnel}

kill_node_groups == {S_TBM_TunnelAlongZ, S_TBM_TunnelProcedural}

\* Variant: only the "." suffix recognised
NameMatches_DotOnly(nm, n) == nm = n \/ StartsWith(nm, n \o <<".">>)

NameMatches(nm, n) ==
    nm = n \/ StartsWith(nm, n \o S_Dot) \/ StartsWith(nm, n \o S_Underscore)

IsKilled(nm) == \E n \in kill_names : NameMatches(nm, n)

\* for obj in list(coll.objects): bpy.data.objects.remove(obj, do_unlink=True)
\* A snapshot entry the host has freed in the meantime raises ReferenceError (err).
RECURSIVE CleanCollObjects(_, _)
CleanCollObjects(d, os) ==
    IF os = <<>> \/ d.err THEN d
    ELSE IF Head(os) \notin DOMAIN d.objects THEN [d EXCEPT !.err = TRUE]
    ELSE CleanCollObjects(RemoveObject(d, Head(os)), Tail(os))

RECURSIVE CleanCollections(_, _)
CleanCollections(d, cs) ==
    IF cs = <<>> \/ d.err THEN d
    ELSE IF Head(cs) \notin DOMAIN d.collections THEN [d EXCEPT !.err = TRUE]
    ELSE IF d.collections[Head(cs)].name \in kill_collections
         THEN LET d1 == CleanCollObjects(d, SeqOf(CollObjects(d, Head(cs))))
              IN  CleanCollections(IF d1.err THEN d1 ELSE RemoveCollection(d1, Head(cs)), Tail(cs))
         ELSE CleanCollections(d, Tail(cs))

RECURSIVE CleanObjects(_, _)
CleanObjects(d, os) ==
    IF os = <<>> \/ d.err THEN d
    ELSE IF Head(os) \notin DOMAIN d.objects THEN [d EXCEPT !.err = TRUE]
    ELSE IF IsKilled(d.objects[Head(os)].name)
         THEN CleanObjects(RemoveObject(d, Head(os)), Tail(os))
         ELSE CleanObjects(d, Tail(os))

RECURSIVE CleanMeshes(_, _)
CleanMeshes(d, ms) ==
    IF ms = <<>> \/ d.err THEN d
    ELSE IF Head(ms) \notin DOMAIN d.meshes THEN [d EXCEPT !.err = TRUE]
    ELSE IF MeshUsers(d, Head(ms)) = 0
         THEN CleanMeshes([d EXCEPT !.meshes = Without(d.meshes, Head(ms))], Tail(ms))
         ELSE CleanMeshes(d, Tail(ms))

RECURSIVE CleanNodeGroups(_, _)
CleanNodeGroups(d, ns) ==
    IF ns = <<>> \/ d.err THEN d
    ELSE IF Head(ns) \notin DOMAIN d.node_groups THEN [d EXCEPT !.err = TRUE]
    ELSE IF d.node_groups[Head(ns)].name \in kill_node_groups
         THEN CleanNodeGroups(RemoveNodeGroup(d, Head(ns)), Tail(ns))
         ELSE CleanNodeGroups(d, Tail(ns))

clean_old(d) ==
    LET d1 == CleanCollections(d, SeqOf(DOMAIN d.collections))
        d2 == CleanObjects(d1, SeqOf(DOMAIN d1.objects))
        d3 == CleanMeshes(d2, SeqOf(DOMAIN d2.meshes))
    IN  CleanNodeGroups(d3, SeqOf(DOMAIN d3.node_groups))

\* ------------------------------------------------------- user settings
full_circle_res == 128
RegularCountSetting == 5
KeyAngleFactorSetting == FRound(<<6, 10>>)
gn_ring_count == 10
gn_ring_spacing == <<3, 2>>
gn_rot_jitter_deg == 40
gn_pos_jitter == <<1, 100>>
gn_seed == 27

\* Variant: the key segment left out of the division of the circle
RegularAngleDeg_NoKey(n, f) == FDiv(FInt(360), FInt(n))

\* regular_angle_deg = 360.0 / (regular_count + key_angle_factor)
RegularAngleDeg(n, f) == FDiv(FInt(360), FAdd(FInt(n), f))

\* key_angle_deg = regular_angle_deg * key_angle_factor
KeyAngleDeg(ra, f) == FMul(ra, f)

\* math.radians(x), as a rational multiple of pi
Radians(x) == RDiv(Rat(x), RInt(180))

\* ---------------------------------------------------- make_segment_mesh
\* The float full_circle_res * angle_deg / 360.0
StepQuotient(angle_deg) == FDiv(FMul(FInt(full_circle_res), angle_deg), FInt(360))

\* round(x) of a float
RoundFloat(x) == RoundHalfEven(Rat(x)[1], Rat(x)[2])

\* Variant: the quotient truncated (int) instead of rounded
SegmentSteps_Truncating(angle_deg) ==
    Max(8, Rat(StepQuotient(angle_deg))[1] \div Rat(StepQuotient(angle_deg))[2])

SegmentSteps(angle_deg) == Max(8, RoundFloat(StepQuotient(angle_deg)))

\* t = start + (end - start) * (i / steps), with start = -a_rad / 2, end = a_rad / 2
StepAngle(angle_deg, steps, i) ==
    LET a_rad == Radians(angle_deg)
        start == RSub(RInt(0), RDiv(a_rad, RInt(2)))
        end == RDiv(a_rad, RInt(2))
    IN  RAdd(start, RMul(RSub(end, start), <<i, steps>>))

\* The vertex (r * cos t, y, r * sin t) is kept as its radius, plane and angle.
Vertex(r, y, t) == [r |-> r, y |-> y, t |-> t]

\* One pass of "for i in range(steps + 1)": four vertices appended
StepVerts(angle_deg, steps, i) ==
    LET t == StepAngle(angle_deg, steps, i)
    IN  <<Vertex("r_in", "y0", t), Vertex("r_out", "y0", t),
          Vertex("r_in", "y1", t), Vertex("r_out", "y1", t)>>

\* The last index of "for i in range(steps + 1)"
LastVertStep(steps) == steps

\* "for i in range(steps + 1)": the vertices appended by passes lo..hi, in order
\* (the range is split in halves to keep the evaluation shallow)
RECURSIVE VertsLoop(_, _, _, _)
VertsLoop(angle_deg, steps, lo, hi) ==
    IF lo > hi THEN <<>>
    ELSE IF lo = hi THEN StepVerts(angle_deg, steps, lo)
    ELSE LET mid == (lo + hi) \div 2
         IN  VertsLoop(angle_deg, steps, lo, mid) \o VertsLoop(angle_deg, steps, mid + 1, hi)

\* One pass of "for i in range(steps)": four quads; vertex indices are 0-based
StepFaces(i) ==
    LET b0 == i * 4
        b1 == (i + 1) * 4
    IN  <<<<b0, b1, b1 + 2, b0 + 2>>, <<b0 + 1, b0 + 3, b1 + 3, b1 + 1>>,
          <<b0, b0 + 1, b1 + 1, b1>>, <<b0 + 2, b1 + 2, b1 + 3, b0 + 3>>>>

\* "for i in range(steps)": the faces appended by passes lo..hi, in order
RECURSIVE FacesLoop(_, _)
FacesLoop(lo, hi) ==
    IF lo > hi THEN <<>>
    ELSE IF lo = hi THEN StepFaces(lo)
    ELSE LET mid == (lo + hi) \div 2
         IN  FacesLoop(lo, mid) \o FacesLoop(mid + 1, hi)

EndCaps(steps) ==
    LET last == steps * 4
    IN  <<<<0, 2, 3, 1>>, <<last, last + 1, last + 3, last + 2>>>>

SegmentGeometry(angle_deg) ==
    LET steps == SegmentSteps(angle_deg)
    IN  [steps |-> steps,
         verts |-> VertsLoop(angle_deg, steps, 0, LastVertStep(steps)),
         faces |-> FacesLoop(0, steps - 1) \o EndCaps(steps)]

\* A context is [d: the data, next: the next fresh id, ref: the block just made].
Ctx(d, next, ref) == [d |-> d, next |-> next, ref |-> ref]

\* link_to_tunnel_only(obj)
LinkToTunnelOnly(colls, coll) == (colls \cup {coll}) \ {0}

Object(nm, data, colls, r, t) ==
    [name |-> nm, kind |-> "MESH", data |-> data, colls |-> colls, run |-> r, t |-> t,
     mods |-> <<>>]

Mesh(nm, r, geo) ==
    [name |-> nm, run |-> r, fake |-> FALSE, steps |-> geo.steps, verts |-> geo.verts,
     faces |-> geo.faces]

NoGeometry == [steps |-> 0, verts |-> <<>>, faces |-> <<>>]

make_segment_mesh(c, r, coll, nm, angle_deg) ==
    LET me == c.next
        obj == c.next + 1
        meshes1 == With(c.d.meshes, me,
                        Mesh(UniqueName(nm \o S_Mesh, NamesOf(c.d.meshes)), r,
                             SegmentGeometry(angle_deg)))
        objects1 == With(c.d.objects, obj,
                         Object(UniqueName(nm, NamesOf(c.d.objects)), me,
                                LinkToTunnelOnly({}, coll), r, RInt(0)))
    IN  Ctx([c.d EXCEPT !.meshes = meshes1, !.objects = objects1], c.next + 2, obj)

\* ----------------------------------------------------- cutter factories
\* One primitive (bpy.ops.mesh.primitive_*_add) renamed, placed at angle t and
\* linked to the Tunnel collection.
AddCutter(c, r, coll, act, prim, nm, t) ==
    LET me == c.next
        obj == c.next + 1
        meshes1 == With(c.d.meshes, me, Mesh(UniqueName(prim, NamesOf(c.d.meshes)), r, NoGeometry))
        objects1 == With(c.d.objects, obj,
                         Object(UniqueName(nm, NamesOf(c.d.objects)), me,
                                LinkToTunnelOnly({act}, coll), r, t))
    IN  Ctx([c.d EXCEPT !.meshes = meshes1, !.objects = objects1], c.next + 2, obj)

BoltName(y_tag, segment_name) == S_BoltPocketOpen \o y_tag \o S_CloseDash \o segment_name

HandleName(y_tag, segment_name) == S_HandleHoleOpen \o y_tag \o S_CloseDash \o segment_name

\* t = 0.0: the bolt cutters sit at the centre of the segment
BoltAngle(angle_deg) == RInt(0)

\* offset = -half * angle_frac_from_center, half = radians(angle_deg / 2), frac = 0.75
HandleAngle(angle_deg) ==
    RSub(RInt(0), RMul(RDiv(Radians(angle_deg), RInt(2)), <<3, 4>>))

The(S) == CHOOSE x \in S : TRUE

\* Both cutters of a pair, Back then Front; ref holds their ids in creation order.
create_bolt_cutters(c, r, coll, act, segment_name, angle_deg) ==
    The(UNION {{Ctx(c2.d, c2.next, <<c1.ref, c2.ref>>) :
                  c2 \in {AddCutter(c1, r, coll, act, S_Cylinder,
                                    BoltName(S_Front, segment_name), BoltAngle(angle_deg))}} :
               c1 \in {AddCutter(c, r, coll, act, S_Cylinder,
                                 BoltName(S_Back, segment_name), BoltAngle(angle_deg))}})

\* Both cutters of a pair, Front then Back
create_handle_cutters(c, r, coll, act, segment_name, angle_deg) ==
    The(UNION {{Ctx(c2.d, c2.next, <<c1.ref, c2.ref>>) :
                  c2 \in {AddCutter(c1, r, coll, act, S_Cube,
                                    HandleName(S_Back, segment_name), HandleAngle(angle_deg))}} :
               c1 \in {AddCutter(c, r, coll, act, S_Cube,
                                 HandleName(S_Front, segment_name), HandleAngle(angle_deg))}})

BooleanMod(nm, cutter) ==
    [name |-> nm, type |-> "BOOLEAN", object |-> cutter, node_group |-> 0, inputs |-> <<>>]

\* The two loops that add one live boolean modifier per cutter, bolts first
BooleanMods(bolts, handles) ==
    <<BooleanMod("Bolt_0", bolts[1]), BooleanMod("Bolt_1", bolts[2]),
      BooleanMod("Handle_0", handles[1]), BooleanMod("Handle_1", handles[2])>>

\* ------------------------------------------------- geometry node group
Node(type, op, defaults) == [type |-> type, op |-> op, defaults |-> defaults]

Link(n1, out, n2, inp) == [from |-> n1, out |-> out, to |-> n2, inp |-> inp]

NoDefaults == [s \in {} |-> RInt(0)]

Zeros == [s \in {"0", "1", "2"} |-> RInt(0)]

\* Variant: the key angle not halved
KeyRotDeg_NoHalf(n, ra, ka) == FAdd(FMul(FInt(n), ra), ka)

\* key_rot_angle = math.radians(regular_count * regular_angle_deg + key_angle_deg / 2.0)
KeyRotDeg(n, ra, ka) == FAdd(FMul(FInt(n), ra), FDiv(ka, FInt(2)))

key_rot_angle(n, ra, ka) == Radians(KeyRotDeg(n, ra, ka))

\* Variant: no half-step offset added to the instance index
AddHalfDefault_Zero == <<0, 1>>

\* The socket add_half.inputs[1]
AddHalfDefault == <<1, 2>>

\* The socket of rot_vec_reg that angle_reg's value is linked to (1: Y)
RotAxisSocket == "1"

TunnelNodes(n, ra, ka) ==
    [group_in |-> Node("NodeGroupInput", "", NoDefaults),
     group_out |-> Node("NodeGroupOutput", "", NoDefaults),
     obj_info_reg |-> Node("GeometryNodeObjectInfo", "", NoDefaults),
     obj_info_key |-> Node("GeometryNodeObjectInfo", "", NoDefaults),
     mesh_line_reg |-> Node("GeometryNodeMeshLine", "", [s \in {"Count"} |-> RInt(n)]),
     set_pos_reg |-> Node("GeometryNodeSetPosition", "", NoDefaults),
     origin_vec_reg |-> Node("ShaderNodeCombineXYZ", "", Zeros),
     index_reg |-> Node("GeometryNodeInputIndex", "", NoDefaults),
     add_half |-> Node("ShaderNodeMath", "ADD", [s \in {"1"} |-> AddHalfDefault]),
     angle_reg |-> Node("ShaderNodeMath", "MULTIPLY", [s \in {"1"} |-> Radians(ra)]),
     rot_vec_reg |-> Node("ShaderNodeCombineXYZ", "", NoDefaults),
     inst_reg |-> Node("GeometryNodeInstanceOnPoints", "", NoDefaults),
     mesh_line_key |-> Node("GeometryNodeMeshLine", "", [s \in {"Count"} |-> RInt(1)]),
     set_pos_key |-> Node("GeometryNodeSetPosition", "", NoDefaults),
     origin_vec_key |-> Node("ShaderNodeCombineXYZ", "", Zeros),
     rot_vec_key |-> Node("ShaderNodeCombineXYZ", "", [s \in {"1"} |-> key_rot_angle(n, ra, ka)]),
     inst_key |-> Node("GeometryNodeInstanceOnPoints", "", NoDefaults),
     join_ring |-> Node("GeometryNodeJoinGeometry", "", NoDefaults),
     realize_ring |-> Node("GeometryNodeRealizeInstances", "", NoDefaults),
     mesh_line_y |-> Node("GeometryNodeMeshLine", "", NoDefaults),
     index_y |-> Node("GeometryNodeInputIndex", "", NoDefaults),
     mul_spacing |-> Node("ShaderNodeMath", "MULTIPLY", NoDefaults),
     pos_y |-> Node("ShaderNodeCombineXYZ", "", [s \in {"0", "2"} |-> RInt(0)]),
     set_pos_y |-> Node("GeometryNodeSetPosition", "", NoDefaults),
     inst_rings |-> Node("GeometryNodeInstanceOnPoints", "", NoDefaults),
     rot_neg |-> Node("ShaderNodeMath", "MULTIPLY", [s \in {"1"} |-> RInt(-1)]),
     rand_rot |-> Node("FunctionNodeRandomValue", "FLOAT", NoDefaults),
     deg2rad |-> Node("ShaderNodeMath", "MULTIPLY", [s \in {"1"} |-> <<1, 180>>]),
     rot_jitter_vec |-> Node("ShaderNodeCombineXYZ", "", NoDefaults),
     rot_rings |-> Node("GeometryNodeRotateInstances", "", NoDefaults),
     pos_neg |-> Node("ShaderNodeMath", "MULTIPLY", [s \in {"1"} |-> RInt(-1)]),
     rand_pos |-> Node("FunctionNodeRandomValue", "FLOAT", NoDefaults),
     pos_jitter_vec |-> Node("ShaderNodeCombineXYZ", "", NoDefaults),
     jitter_pos |-> Node("GeometryNodeSetPosition", "", NoDefaults),
     realize_final |-> Node("GeometryNodeRealizeInstances", "", NoDefaults)]

TunnelLinks ==
    {Link("group_in", "0", "obj_info_reg", "Object"),
     Link("group_in", "1", "obj_info_key", "Object"),
     Link("mesh_line_reg", "Mesh", "set_pos_reg", "Geometry"),
     Link("origin_vec_reg", "Vector", "set_pos_reg", "Position"),
     Link("index_reg", "Index", "add_half", "0"),
     Link("add_half", "Value", "angle_reg", "0"),
     Link("angle_reg", "Value", "rot_vec_reg", RotAxisSocket),
     Link("set_pos_reg", "Geometry", "inst_reg", "Points"),
     Link("obj_info_reg", "Geometry", "inst_reg", "Instance"),
     Link("rot_vec_reg", "Vector", "inst_reg", "Rotation"),
     Link("mesh_line_key", "Mesh", "set_pos_key", "Geometry"),
     Link("origin_vec_key", "Vector", "set_pos_key", "Position"),
     Link("set_pos_key", "Geometry", "inst_key", "Points"),
     Link("obj_info_key", "Geometry", "inst_key", "Instance"),
     Link("rot_vec_key", "Vector", "inst_key", "Rotation"),
     Link("inst_reg", "Instances", "join_ring", "Geometry"),
     Link("inst_key", "Instances", "join_ring", "Geometry"),
     Link("join_ring", "Geometry", "realize_ring", "Geometry"),
     Link("group_in", "2", "mesh_line_y", "Count"),
     Link("index_y", "Index", "mul_spacing", "0"),
     Link("group_in", "3", "mul_spacing", "1"),
     Link("mul_spacing", "Value", "pos_y", "1"),
     Link("mesh_line_y", "Mesh", "set_pos_y", "Geometry"),
     Link("pos_y", "Vector", "set_pos_y", "Position"),
     Link("set_pos_y", "Geometry", "inst_rings", "Points"),
     Link("realize_ring", "Geometry", "inst_rings", "Instance"),
     Link("group_in", "4", "rot_neg", "0"),
     Link("rot_neg", "Value", "rand_rot", "Min"),
     Link("group_in", "4", "rand_rot", "Max"),
     Link("group_in", "6", "rand_rot", "Seed"),
     Link("rand_rot", "Value", "deg2rad", "0"),
     Link("deg2rad", "Value", "rot_jitter_vec", "1"),
     Link("inst_rings", "Instances", "rot_rings", "Instances"),
     Link("rot_jitter_vec", "Vector", "rot_rings", "Rotation"),
     Link("group_in", "5", "pos_neg", "0"),
     Link("pos_neg", "Value", "rand_pos", "Min"),
     Link("group_in", "5", "rand_pos", "Max"),
     Link("group_in", "6", "rand_pos", "Seed"),
     Link("rand_pos", "Value", "pos_jitter_vec", "1"),
     Link("rot_rings", "Instances", "jitter_pos", "Geometry"),
     Link("pos_jitter_vec", "Vector", "jitter_pos", "Offset"),
     Link("jitter_pos", "Geometry", "realize_final", "Geometry"),
     Link("realize_final", "Geometry", "group_out", "Geometry")}

\* The seven INPUT sockets of the interface, in the order make_in declares them
InterfaceInputs ==
    <<"Segment (Regular)", "Segment (Key)", "Ring Count", "Ring Spacing",
      "Rot Jitter Deg", "Pos Jitter", "Seed">>

\* ng_name lookup, removal of an old group, and the new group built from empty
BuildNodeGroup(c, r, n, ra, ka) ==
    LET old == {k \in DOMAIN c.d.node_groups : c.d.node_groups[k].name = S_TBM_TunnelProcedural}
        d1 == IF old = {} THEN c.d ELSE RemoveNodeGroup(c.d, CHOOSE k \in old : TRUE)
        ng == [name |-> UniqueName(S_TBM_TunnelProcedural, NamesOf(d1.node_groups)),
               run |-> r, inputs |-> InterfaceInputs,
               nodes |-> TunnelNodes(n, ra, ka), links |-> TunnelLinks]
    IN  Ctx([d1 EXCEPT !.node_groups = With(d1.node_groups, c.next, ng)], c.next + 1, c.next)

\* How the host evaluates the float field that feeds socket inp of node nd, at the
\* point with the given index (exact arithmetic; a vector is a triple).
RECURSIVE SocketValue(_, _, _, _)
NodeValue(ng, nd, index) ==
    LET node == ng.nodes[nd]
    IN  CASE node.type = "GeometryNodeInputIndex" -> RInt(index)
          [] node.type = "ShaderNodeMath" /\ node.op = "ADD" ->
                RAdd(SocketValue(ng, nd, "0", index), SocketValue(ng, nd, "1", index))
          [] node.type = "ShaderNodeMath" /\ node.op = "MULTIPLY" ->
                RMul(SocketValue(ng, nd, "0", index), SocketValue(ng, nd, "1", index))
          [] node.type = "ShaderNodeCombineXYZ" ->
                <<SocketValue(ng, nd, "0", index), SocketValue(ng, nd, "1", index),
                  SocketValue(ng, nd, "2", index)>>
          [] OTHER -> RInt(0)

SocketValue(ng, nd, inp, index) ==
    LET src == {l \in ng.links : l.to = nd /\ l.inp = inp}
    IN  IF src # {} THEN NodeValue(ng, (CHOOSE l \in src : TRUE).from, index)
        ELSE IF inp \in DOMAIN ng.nodes[nd].defaults THEN ng.nodes[nd].defaults[inp]
        ELSE RInt(0)

\* The points an Instance on Points node instances on: the Count of the mesh line
\* that feeds its Points socket through a Set Position node
PointCount(ng, inst) ==
    LET sp == (CHOOSE l \in ng.links : l.to = inst /\ l.inp = "Points").from
        ml == (CHOOSE l \in ng.links : l.to = sp /\ l.inp = "Geometry").from
    IN  ng.nodes[ml].defaults["Count"][1]

\* The rotation (a triple of angles, in units of pi) of instance index of node inst
InstanceRotation(ng, inst, index) == SocketValue(ng, inst, "Rotation", index)

\* ---------------------------------------------------------- controller
\* Lines 544-554: the orphaned TunnelController_Mesh, the temporary cube, the copy
\* of its mesh, the controller object and its NODES modifier.
CreateControllerData(c, r, coll, act, ng) ==
    LET orphan == c.next
        tempMesh == c.next + 1
        tempObj == c.next + 2
        copy == c.next + 3
        ctl == c.next + 4
        m1 == With(c.d.meshes, orphan,
                   Mesh(UniqueName(S_TunnelController_Mesh, NamesOf(c.d.meshes)), r, NoGeometry))
        m2 == With(m1, tempMesh, Mesh(UniqueName(S_Cube, NamesOf(m1)), r, NoGeometry))
        m3 == With(m2, copy, Mesh(UniqueName(S_Cube, NamesOf(m2)), r, NoGeometry))
        mod == [name |-> "TunnelProcedural", type |-> "NODES", object |-> 0,
                node_group |-> ng, inputs |-> <<>>]
        obj == [Object(UniqueName(S_TunnelController, NamesOf(c.d.objects)), copy,
                       LinkToTunnelOnly({}, coll), r, RInt(0)) EXCEPT !.mods = <<mod>>]
    IN  Ctx([c.d EXCEPT !.meshes = m3, !.objects = With(c.d.objects, ctl, obj)],
            c.next + 5, ctl)

\* The values the try block assigns, in order
InputValues(seg_reg, seg_key) ==
    <<seg_reg, seg_key, gn_ring_count, gn_ring_spacing, gn_rot_jitter_deg, gn_pos_jitter,
      gn_seed>>

\* ------------------------------------------- generate_tunnel.py, top level
MaxRuns == 2

Segs == {"reg", "key"}

\* gpc is <<step, segment>>; the steps outside the two segment builds carry "-"
At(step) == <<step, "-">>

G0 == [coll |-> 0, seg |-> [s \in Segs |-> 0], bolt |-> [s \in Segs |-> <<>>],
       handle |-> [s \in Segs |-> <<>>], ng |-> 0, controller |-> 0, warned |-> FALSE]

TheData == Data(objects, meshes, collections, node_groups)

SetData(d) ==
    /\ objects' = d.objects
    /\ meshes' = d.meshes
    /\ collections' = d.collections
    /\ node_groups' = d.node_groups

\* Lines 37-39
DeriveAngles ==
    /\ gpc = At("start")
    /\ regular_angle_deg' = RegularAngleDeg(regular_count, key_angle_factor)
    /\ key_angle_deg' = KeyAngleDeg(regular_angle_deg', key_angle_factor)
    /\ gpc' = At("clean")
    /\ UNCHANGED <<regular_count, key_angle_factor, run, objects, meshes, collections,
                   node_groups, nextId, active_coll, g, renderVars>>

\* Line 93
CleanOld ==
    /\ gpc = At("clean")
    /\ \E d \in {clean_old(TheData)} :
           /\ SetData(d)
           /\ gpc' = IF d.err THEN At("crashed") ELSE At("collection")
           /\ active_coll' = IF active_coll \in DOMAIN d.collections THEN active_coll ELSE 0
    /\ UNCHANGED <<regular_count, key_angle_factor, regular_angle_deg, key_angle_deg, run,
                   nextId, g, renderVars>>

\* Lines 96-98
CreateCollection ==
    /\ gpc = At("collection")
    /\ collections' = With(collections, nextId,
                           [name |-> UniqueName(S_Tunnel, NamesOf(collections)), run |-> run])
    /\ g' = [g EXCEPT !.coll = nextId]
    /\ nextId' = nextId + 1
    /\ gpc' = <<"segment", "reg">>
    /\ UNCHANGED <<regular_count, key_angle_factor, regular_angle_deg, key_angle_deg, run,
                   objects, meshes, node_groups, active_coll, renderVars>>

SegObjectName(s) == IF s = "reg" THEN S_SegmentRegular ELSE S_SegmentKey

SegName(s) == IF s = "reg" THEN S_Regular ELSE S_Key

SegAngle(s) == IF s = "reg" THEN regular_angle_deg ELSE key_angle_deg

\* Lines 255 and 275
MakeSegment ==
    \E s \in Segs :
        /\ gpc = <<"segment", s>>
        /\ \E c \in {make_segment_mesh(Ctx(TheData, nextId, 0), run, g.coll,
                                       SegObjectName(s), SegAngle(s))} :
               /\ SetData(c.d)
               /\ nextId' = c.next
               /\ g' = [g EXCEPT !.seg[s] = c.ref]
        /\ gpc' = <<"bolts", s>>
        /\ UNCHANGED <<regular_count, key_angle_factor, regular_angle_deg, key_angle_deg,
                       run, active_coll, renderVars>>

\* Lines 256 and 276
MakeBoltCutters ==
    \E s \in Segs :
        /\ gpc = <<"bolts", s>>
        /\ \E c \in {create_bolt_cutters(Ctx(TheData, nextId, 0), run, g.coll, active_coll,
                                         SegName(s), SegAngle(s))} :
               /\ SetData(c.d)
               /\ nextId' = c.next
               /\ g' = [g EXCEPT !.bolt[s] = c.ref]
        /\ gpc' = <<"handles", s>>
        /\ UNCHANGED <<regular_count, key_angle_factor, regular_angle_deg, key_angle_deg,
                       run, active_coll, renderVars>>

\* Lines 257 and 277
MakeHandleCutters ==
    \E s \in Segs :
        /\ gpc = <<"handles", s>>
        /\ \E c \in {create_handle_cutters(Ctx(TheData, nextId, 0), run, g.coll, active_coll,
                                           SegName(s), SegAngle(s))} :
               /\ SetData(c.d)
               /\ nextId' = c.next
               /\ g' = [g EXCEPT !.handle[s] = c.ref]
        /\ gpc' = <<"booleans", s>>
        /\ UNCHANGED <<regular_count, key_angle_factor, regular_angle_deg, key_angle_deg,
                       run, active_coll, renderVars>>

\* Lines 260-272 and 279-291
AddBooleans ==
    \E s \in Segs :
        /\ gpc = <<"booleans", s>>
        /\ objects' = [objects EXCEPT ![g.seg[s]].mods = BooleanMods(g.bolt[s], g.handle[s])]
        /\ gpc' = IF s = "reg" THEN <<"segment", "key">> ELSE At("nodes")
        /\ UNCHANGED <<regular_count, key_angle_factor, regular_angle_deg, key_angle_deg,
                       run, meshes, collections, node_groups, nextId, active_coll, g,
                       renderVars>>

\* Lines 297-538
BuildNodes ==
    /\ gpc = At("nodes")
    /\ \E c \in {BuildNodeGroup(Ctx(TheData, nextId, 0), run, regular_count,
                                  regular_angle_deg, key_angle_deg)} :
           /\ SetData(c.d)
           /\ nextId' = c.next
           /\ g' = [g EXCEPT !.ng = c.ref]
    /\ gpc' = At("controller")
    /\ UNCHANGED <<regular_count, key_angle_factor, regular_angle_deg, key_angle_deg, run,
                   active_coll, renderVars>>

\* Lines 544-554
CreateController ==
    /\ gpc = At("controller")
    /\ \E c \in {CreateControllerData(Ctx(TheData, nextId, 0), run, g.coll, active_coll, g.ng)} :
           /\ SetData(c.d)
           /\ nextId' = c.next
           /\ g' = [g EXCEPT !.controller = c.ref]
    /\ gpc' = At("inputs")
    /\ UNCHANGED <<regular_count, key_angle_factor, regular_angle_deg, key_angle_deg, run,
                   active_coll, renderVars>>

\* Variant: the failure is not caught and ends the script
AssignInputs_Abort ==
    /\ gpc = At("inputs")
    /\ \E k \in 0..7 :
        /\ objects' = [objects EXCEPT ![g.controller].mods[1].inputs =
                           SubSeq(InputValues(g.seg["reg"], g.seg["key"]), 1, k)]
        /\ g' = g
        /\ gpc' = IF k < 7 THEN At("crashed") ELSE At("done")
    /\ UNCHANGED <<regular_count, key_angle_factor, regular_angle_deg, key_angle_deg, run,
                   meshes, collections, node_groups, nextId, active_coll, renderVars>>

\* Lines 557-568: the host accepts the first k assignments; the one after them, if
\* any, raises, and the except branch logs the warning.
AssignInputs ==
    /\ gpc = At("inputs")
    /\ \E k \in 0..7 :
        /\ objects' = [objects EXCEPT ![g.controller].mods[1].inputs =
                           SubSeq(InputValues(g.seg["reg"], g.seg["key"]), 1, k)]
        /\ g' = [g EXCEPT !.warned = (k < 7)]
    /\ gpc' = At("done")
    /\ UNCHANGED <<regular_count, key_angle_factor, regular_angle_deg, key_angle_deg, run,
                   meshes, collections, node_groups, nextId, active_coll, renderVars>>

\* The operator runs the script again on the scene the last run left.
Rerun ==
    /\ gpc = At("done")
    /\ run < MaxRuns
    /\ run' = run + 1
    /\ gpc' = At("start")
    /\ g' = G0
    /\ regular_angle_deg' = <<>>
    /\ key_angle_deg' = <<>>
    /\ UNCHANGED <<regular_count, key_angle_factor, objects, meshes, collections,
                   node_groups, nextId, active_coll, renderVars>>

GenNext ==
    \/ DeriveAngles
    \/ CleanOld
    \/ CreateCollection
    \/ MakeSegment
    \/ MakeBoltCutters
    \/ MakeHandleCutters
    \/ AddBooleans
    \/ BuildNodes
    \/ CreateController
    \/ AssignInputs
    \/ Rerun

\* ------------------------------------------------ scenes the script meets
UserObject(nm, data, colls) == Object(nm, data, colls, 0, RInt(0))

UserMesh(nm, fake) == [Mesh(nm, 0, NoGeometry) EXCEPT !.fake = fake]

S_Collection == <<"C", "o", "l", "l", "e", "c", "t", "i", "o", "n">>
S_Suzanne == <<"S", "u", "z", "a", "n", "n", "e">>
S_Keep == <<"K", "e", "e", "p">>
S_Old == <<"O", "l", "d">>
S_UserNodes == <<"U", "s", "e", "r", "N", "o", "d", "e", "s">>

SceneItems == {"user", "stale_tunnel", "tbm_ring", "named", "loose_cutter", "orphans", "groups"}

Pick(flags, item, f) == IF item \in flags THEN f ELSE [k \in {} |-> 0]

SceneObjects(flags) ==
    Pick(flags, "user", (10 :> UserObject(S_Suzanne, 20, {1})))
    @@ Pick(flags, "stale_tunnel",
            (11 :> UserObject(BoltName(S_Back, S_Regular), 21, {2}))
            @@ (12 :> [UserObject(S_SegmentRegular, 22, {2})
                         EXCEPT !.mods = <<BooleanMod("Bolt_0", 11)>>]))
    @@ Pick(flags, "tbm_ring",
            (13 :> UserObject(S_RingBase \o NumSuffix(1), 23, {3}))
            @@ (14 :> UserObject(S_Keep, 23, {0})))
    @@ Pick(flags, "named",
            (15 :> UserObject(S_SegKey \o S_Underscore \o S_Old, 24, {0}))
            @@ (16 :> UserObject(S_TunnelRing, 24, {0})))
    @@ Pick(flags, "loose_cutter", (17 :> UserObject(HandleName(S_Front, S_Key), 25, {0})))

SceneMeshes(flags) ==
    Pick(flags, "user", (20 :> UserMesh(S_Suzanne, FALSE)))
    @@ Pick(flags, "stale_tunnel",
            (21 :> UserMesh(S_Cylinder, FALSE))
            @@ (22 :> UserMesh(S_SegmentRegular \o S_Mesh, FALSE)))
    @@ Pick(flags, "tbm_ring", (23 :> UserMesh(S_RingBase, FALSE)))
    @@ Pick(flags, "named", (24 :> UserMesh(S_SegKey, FALSE)))
    @@ Pick(flags, "loose_cutter", (25 :> UserMesh(S_Cube, FALSE)))
    @@ Pick(flags, "orphans", (26 :> UserMesh(S_Old, FALSE)) @@ (27 :> UserMesh(S_Keep, TRUE)))

SceneCollections(flags) ==
    Pick(flags, "user", (1 :> [name |-> S_Collection, run |-> 0]))
    @@ Pick(flags, "stale_tunnel", (2 :> [name |-> S_Tunnel, run |-> 0]))
    @@ Pick(flags, "tbm_ring", (3 :> [name |-> S_TBM_Ring, run |-> 0]))

UserGroup(nm) == [name |-> nm, run |-> 0, inputs |-> <<>>, nodes |-> <<>>, links |-> {}]

SceneNodeGroups(flags) ==
    Pick(flags, "groups",
         (30 :> UserGroup(S_TBM_TunnelAlongZ))
         @@ (31 :> UserGroup(S_TBM_TunnelProcedural))
         @@ (32 :> UserGroup(S_UserNodes)))

FirstId == 40

\* The factors a user types as a decimal literal: k / 10 rounded to a float
FactorSet == {FRound(<<k, 10>>) : k \in 1..MaxTenths}

InitGen ==
    /\ gpc = At("start")
    /\ run = 1
    /\ g = G0
    /\ regular_angle_deg = <<>>
    /\ key_angle_deg = <<>>
    /\ nextId = FirstId
    /\ \/ /\ regular_count \in 1..MaxCount
          /\ key_angle_factor \in FactorSet
          /\ objects = SceneObjects({})
          /\ meshes = SceneMeshes({})
          /\ collections = SceneCollections({})
          /\ node_groups = SceneNodeGroups({})
          /\ active_coll = 0
       \/ /\ regular_count = RegularCountSetting
          /\ key_angle_factor = KeyAngleFactorSetting
          /\ \E flags \in SUBSET SceneItems :
                /\ objects = SceneObjects(flags)
                /\ meshes = SceneMeshes(flags)
                /\ collections = SceneCollections(flags)
                /\ node_groups = SceneNodeGroups(flags)
                /\ active_coll = IF "user" \in flags THEN 1 ELSE 0

RenderIdle ==
    /\ filepath = <<>>
    /\ cwd_rel = <<>>
    /\ cameras = <<>>
    /\ env_cameras = <<>>
    /\ name = <<>>
    /\ default_frame_end = 0
    /\ rpc = "idle"
    /\ cam_idx = 0
    /\ scene = <<>>
    /\ view_layers = <<>>
    /\ nodes = <<>>
    /\ links = {}
    /\ renders = <<>>
    /\ assigned = <<>>

Init == InitGen /\ RenderIdle

Spec == Init /\ [][GenNext]_vars

\* ================================================ claims: the generator
AnglesDerived == regular_angle_deg # <<>> /\ key_angle_deg # <<>>

\* regular_count * regular_angle + key_angle, evaluated in floats as Python does
ClosureSum == FAdd(FMul(FInt(regular_count), regular_angle_deg), key_angle_deg)

\* The same sum of the two computed floats, taken exactly
ExactClosureSum == RAdd(RMul(RInt(regular_count), Rat(regular_angle_deg)), Rat(key_angle_deg))

\* |x - y| <= k * 2^-MantBits * |y|: x is y up to k unit roundoffs
Within(x, y, k) ==
    RLeq(RMul(RAbs(RSub(x, y)), RInt(Pow2(MantBits))), RMul(RInt(k), RAbs(y)))

\* C1, as stated: for every regular_count >= 1 and key_angle_factor > 0 the derived
\* angles satisfy regular_count * regular_angle + key_angle = 360 exactly (whether
\* the sum is evaluated in floats or taken exactly over the computed angles).
C1_ClosesExactly ==
    AnglesDerived => (Rat(ClosureSum) = RInt(360) \/ ExactClosureSum = RInt(360))

\* C1, amended: for every regular_count >= 1 and key_angle_factor > 0 the derived
\* angles close the ring within floating-point tolerance: the sum differs from 360
\* by at most 5 unit roundoffs of 360, evaluated in floats or taken exactly.
C1_ClosesWithinTolerance ==
    AnglesDerived =>
        /\ Within(Rat(ClosureSum), RInt(360), 5)
        /\ Within(ExactClosureSum, RInt(360), 5)

\* C1 witness: angles derived from settings other than the script's defaults, for
\* which the float sum is not 360
C1_Witness ==
    /\ AnglesDerived
    /\ regular_count = 3
    /\ Rat(ClosureSum) # RInt(360)
    /\ ExactClosureSum # RInt(360)

\* k is the integer nearest to the rational q, the even one when q is half-way
NearestTiesEven(q, k) ==
    /\ 2 * Abs(q[1] - k * q[2]) <= q[2]
    /\ (2 * Abs(q[1] - k * q[2]) = q[2]) => (k % 2 = 0)

SegBuilt(s) == g.seg[s] # 0 /\ g.seg[s] \in DOMAIN objects

SegMesh(s) == meshes[objects[g.seg[s]].data]

\* C2: for every arc angle A passed to make_segment_mesh, the step count is
\* max(8, round(full_circle_res * A / 360)), round being Python's (nearest integer,
\* ties to even) of the float quotient, and the vertex list has 4 * (steps + 1) entries.
C2_StepsAndVertexCount ==
    \A s \in Segs :
        SegBuilt(s) =>
            /\ \E k \in 0..(2 * full_circle_res) :
                   /\ NearestTiesEven(Rat(StepQuotient(SegAngle(s))), k)
                   /\ SegMesh(s).steps = Max(8, k)
            /\ Len(SegMesh(s).verts) = 4 * (SegMesh(s).steps + 1)

\* C2 witness: both templates built, one above the minimum of 8 steps with a
\* quotient that is not an integer, one held at the minimum
C2_Witness ==
    /\ SegBuilt("reg") /\ SegBuilt("key")
    /\ SegMesh("reg").steps > 8
    /\ Rat(StepQuotient(regular_angle_deg))[2] # 1
    /\ SegMesh("key").steps = 8
    /\ RoundFloat(StepQuotient(key_angle_deg)) < 8
    /\ Len(SegMesh("reg").verts) = 4 * (SegMesh("reg").steps + 1)

\* The arc of angles a mesh covers: the least and the greatest vertex angle
MeshArc(me) ==
    LET ts == {me.verts[i].t : i \in DOMAIN me.verts}
    IN  [lo |-> CHOOSE a \in ts : \A b \in ts : RLeq(a, b),
         hi |-> CHOOSE a \in ts : \A b \in ts : RLeq(b, a)]

\* The arc an instance of the mesh occupies when rotated by rot about the tunnel axis
InstanceArc(rot, me) == [lo |-> RAdd(rot, MeshArc(me).lo), hi |-> RAdd(rot, MeshArc(me).hi)]

GraphBuilt == g.ng # 0 /\ g.ng \in DOMAIN node_groups /\ SegBuilt("reg") /\ SegBuilt("key")

RegularRotation(i) == InstanceRotation(node_groups[g.ng], "inst_reg", i)

RegularArc(i) == InstanceArc(RegularRotation(i)[2], SegMesh("reg"))

KeyRotation == InstanceRotation(node_groups[g.ng], "inst_key", 0)

KeyArc == InstanceArc(KeyRotation[2], SegMesh("key"))

ExactKeyRotation ==
    Reduce(RDiv(RAdd(RMul(RInt(regular_count), Rat(regular_angle_deg)),
                     RDiv(Rat(key_angle_deg), RInt(2))), RInt(180)))

LastRegularArc == RegularArc(regular_count - 1)

DenylistMatch(nm) ==
    \E n \in kill_names :
        nm = n \/ StartsWith(nm, n \o <<".">>) \/ StartsWith(nm, n \o <<"_">>)

\* C8: clean_old completes without error on any scene (empty, partially or fully
\* generated); right after it a second clean_old would change nothing, no object is
\* left whose name is a denylist name or starts with one followed by "." or "_",
\* and no collection named TBM_Ring or Tunnel is left.
C8_CleanOldIdempotent ==
    /\ gpc # At("crashed")
    /\ gpc = At("collection") =>
        /\ clean_old(TheData) = TheData
        /\ \A o \in DOMAIN objects : ~DenylistMatch(objects[o].name)
        /\ \A c \in DOMAIN collections :
               collections[c].name \notin {S_TBM_Ring, S_Tunnel}

\* C8 witness: clean_old has just run on a fully generated scene that also held
\* a stale Tunnel collection and denylisted names before the first run, and the
\* operator's own objects are still there
C8_Witness ==
    /\ gpc = At("collection")
    /\ run = 2
    /\ 14 \in DOMAIN objects
    /\ 17 \in DOMAIN objects
    /\ 2 \notin DOMAIN collections
    /\ 15 \notin DOMAIN objects

Generated(f) == {k \in DOMAIN f : f[k].run >= 1}

CutterIds == {g.bolt[s][i] : s \in Segs, i \in 1..2} \cup {g.handle[s][i] : s \in Segs, i \in 1..2}

\* C9: on every run the cleanup removes every object, mesh and node group (and the
\* Tunnel collection) an earlier run generated before anything new is generated,
\* so when a run is done the generated data is one generation, all of this run:
\* the regular and the key template, their eight cutters, one TBM_TunnelProcedural
\* node group and one Tunnel Controller.
C9_OneGeneration ==
    /\ gpc = At("collection") =>
        /\ Generated(objects) = {}
        /\ Generated(meshes) = {}
        /\ Generated(node_groups) = {}
        /\ Generated(collections) = {}
    /\ gpc = At("done") =>
        /\ \A o \in Generated(objects) : objects[o].run = run
        /\ \A m \in Generated(meshes) : meshes[m].run = run
        /\ Generated(objects) = {g.seg["reg"], g.seg["key"], g.controller} \cup CutterIds
        /\ Cardinality(Generated(objects)) = 11
        /\ objects[g.seg["reg"]].name = S_SegmentRegular
        /\ objects[g.seg["key"]].name = S_SegmentKey
        /\ objects[g.controller].name = S_TunnelController
        /\ \A o \in Generated(objects) : g.coll \in objects[o].colls
        /\ Generated(node_groups) = {g.ng}
        /\ node_groups[g.ng].name = S_TBM_TunnelProcedural
        /\ Generated(collections) = {g.coll}
        /\ collections[g.coll].name = S_Tunnel

\* C9 witness: a re-run is done on the scene the first run left
C9_Witness ==
    /\ gpc = At("done")
    /\ run = 2
    /\ Cardinality(Generated(objects)) = 11
    /\ Cardinality(DOMAIN objects) > 11

\* ================================================ render_scene.py
SAMPLES == 4096

MaxObjects == 2

LastIndexOf(s, ch) ==
    LET I == {i \in DOMAIN s : s[i] = ch}
    IN  IF I = {} THEN 0 ELSE CHOOSE i \in I : \A j \in I : j <= i

\* bpy.path.display_name_from_filepath: the file's base name without its extension
display_name_from_filepath(fp) ==
    LET base == SubSeq(fp, LastIndexOf(fp, "/") + 1, Len(fp))
    IN  IF LastIndexOf(base, ".") > 1
        THEN SubSeq(base, 1, LastIndexOf(base, ".") - 1)
        ELSE base

SceneName(fp) ==
    IF Contains(fp, S_puzzles)
    THEN S_puzzles \o display_name_from_filepath(fp)
    ELSE display_name_from_filepath(fp)

\* bpy.path.relpath: the path made relative to the .blend file's directory and
\* marked with "//"; a relative path is taken from the working directory first
relpath(path) ==
    IF StartsWith(path, S_SlashSlash) THEN path ELSE S_SlashSlash \o cwd_rel \o path

\* The collection hierarchy of the scene: 0 is the scene collection
SceneCollectionIds == 0..3

CollectionChildren == [c \in SceneCollectionIds |->
                          IF c = 0 THEN <<1, 3>> ELSE IF c = 1 THEN <<2>> ELSE <<>>]

\* Every view layer mirrors the hierarchy; a layer collection is named by its
\* collection. The result is <<lc>>, or <<>> for None.
RECURSIVE find_layer_collection(_, _)
RECURSIVE FindInChildren(_, _, _)
find_layer_collection(layer_collection, collection) ==
    IF layer_collection = collection
    THEN <<layer_collection>>
    ELSE FindInChildren(CollectionChildren[layer_collection], 1, collection)

FindInChildren(children, i, collection) ==
    IF i > Len(children) THEN <<>>
    ELSE IF find_layer_collection(children[i], collection) # <<>>
         THEN find_layer_collection(children[i], collection)
         ELSE FindInChildren(children, i + 1, collection)

CamerasOf(objs) ==
    LET IsCamera(i) == objs[i].kind = "CAMERA"
    IN  SelectSeq([i \in 1..Len(objs) |-> i], IsCamera)

Camera == objects[cameras[cam_idx]]

\* Variant: hide_render not tested
Hidden_NameOnly(camera) == camera.kind # "CAMERA" \/ Contains(camera.name, S_noimp)

Hidden(camera) ==
    camera.kind # "CAMERA" \/ Contains(camera.name, S_noimp) \/ camera.hide_render

camera_name(camera) == RemovePrefix(camera.name, S_Camera_)

Filtered(camera) == env_cameras # <<>> /\ ~Contains(camera_name(camera), env_cameras)

\* Variant: no special case for the camera 0
SamplesFor_Always(cn) == SAMPLES

SamplesFor(cn) == IF cn = S_Zero THEN 4 ELSE SAMPLES

\* Lines 81-87: left and right are kept and switched off, every other view is
\* removed, and a view is added under the camera's name; the host keeps the
\* names of a scene's views unique, as it does for data-blocks
ResetViews(views, cn) ==
    LET IsStereo(v) == v.name \in {S_left, S_right}
        kept == SelectSeq(views, IsStereo)
    IN  [i \in 1..Len(kept) |-> [kept[i] EXCEPT !.use = FALSE]]
            \o <<[name |-> UniqueName(cn, {kept[i].name : i \in 1..Len(kept)}), use |-> TRUE]>>

FrameEnd(camera) ==
    IF camera.frame_end = <<>> THEN default_frame_end ELSE camera.frame_end[1]

\* Line 102 fails when the camera is in no collection, line 103 when its
\* collection is not in the scene's hierarchy
LayerLookupFails(camera) ==
    \/ camera.colls = <<>>
    \/ find_layer_collection(0, camera.colls[1]) = <<>>

\* Variant: the exclude flag not tested
LayerUse_NameOnly(layer, camera) == ~StartsWith(layer.name, S_Underscore)

LayerUse(layer, camera) ==
    /\ ~StartsWith(layer.name, S_Underscore)
    /\ find_layer_collection(0, camera.colls[1])[1] \notin layer.exclude

\* Variant: the first view layer gets a folder too
Prefix_Always(i) == view_layers[i].name \o S_Slash

Prefix(i) == IF i # 1 THEN view_layers[i].name \o S_Slash ELSE <<>>

ImagePath(i, cn) == relpath(S_renders \o name \o S_Slash \o Prefix(i) \o S_HashUnderscore \o cn)

MistPath(i, cn) == relpath(S_renders \o name \o S_Slash \o Prefix(i) \o S_MistHash \o cn)

CompositorNode(type, layer, path, base_path) ==
    [type |-> type, layer |-> layer, path |-> path, base_path |-> base_path]

LayerNodes(i, cn) ==
    << CompositorNode("CompositorNodeRLayers", view_layers[i].name, <<>>, <<>>),
       CompositorNode("CompositorNodeOutputFile", <<>>, ImagePath(i, cn), S_SlashSlash),
       CompositorNode("CompositorNodeOutputFile", <<>>, MistPath(i, cn), S_SlashSlash) >>

NodeLink(from, socket, to) == [from |-> from, socket |-> socket, to |-> to]

\* The nodes the layer loop creates from layer i on
RECURSIVE LoopNodes(_, _)
LoopNodes(i, camera) ==
    IF i > Len(view_layers) THEN <<>>
    ELSE (IF LayerUse(view_layers[i], camera) THEN LayerNodes(i, camera_name(camera)) ELSE <<>>)
             \o LoopNodes(i + 1, camera)

\* The links the layer loop creates from layer i on, count nodes existing already
RECURSIVE LoopLinks(_, _, _)
LoopLinks(i, camera, count) ==
    IF i > Len(view_layers) THEN {}
    ELSE IF LayerUse(view_layers[i], camera)
         THEN {NodeLink(count + 1, "Image", count + 2), NodeLink(count + 1, "Mist", count + 3)}
                  \cup LoopLinks(i + 1, camera, count + 3)
         ELSE LoopLinks(i + 1, camera, count)

LoopLayers(camera) ==
    [i \in 1..Len(view_layers) |->
        IF LayerUse(view_layers[i], camera)
        THEN [view_layers[i] EXCEPT !.use = TRUE, !.use_pass_combined = TRUE,
                                    !.use_pass_z = FALSE, !.use_pass_mist = TRUE]
        ELSE [view_layers[i] EXCEPT !.use = FALSE]]

\* Lines 10-48 and 64
Setup ==
    /\ rpc = "start"
    /\ name' = SceneName(filepath)
    /\ view_layers' = IF view_layers[1].name = S_ViewLayer
                      THEN [view_layers EXCEPT ![1].name = S_main]
                      ELSE view_layers
    /\ IF scene.has_world
       THEN /\ default_frame_end' = scene.frame_end
            /\ cameras' = CamerasOf(objects)
            /\ cam_idx' = 1
            /\ rpc' = "loop"
       ELSE /\ rpc' = "crashed"
            /\ UNCHANGED <<default_frame_end, cameras, cam_idx>>
    /\ UNCHANGED <<genVars, filepath, cwd_rel, env_cameras, scene, nodes, links,
                   renders, assigned>>

\* Lines 67-68
SkipHidden ==
    /\ rpc = "loop"
    /\ cam_idx <= Len(cameras)
    /\ Hidden(Camera)
    /\ cam_idx' = cam_idx + 1
    /\ UNCHANGED <<genVars, filepath, cwd_rel, cameras, env_cameras, name,
                   default_frame_end, rpc, scene, view_layers, nodes, links,
                   renders, assigned>>

\* Lines 70-74
SkipFiltered ==
    /\ rpc = "loop"
    /\ cam_idx <= Len(cameras)
    /\ ~Hidden(Camera)
    /\ Filtered(Camera)
    /\ cam_idx' = cam_idx + 1
    /\ UNCHANGED <<genVars, filepath, cwd_rel, cameras, env_cameras, name,
                   default_frame_end, rpc, scene, view_layers, nodes, links,
                   renders, assigned>>

\* Lines 70-144
ConfigureCamera ==
    /\ rpc = "loop"
    /\ cam_idx <= Len(cameras)
    /\ ~Hidden(Camera)
    /\ ~Filtered(Camera)
    /\ scene' = [scene EXCEPT !.samples = SamplesFor(camera_name(Camera)),
                              !.views = ResetViews(scene.views, camera_name(Camera)),
                              !.camera = cameras[cam_idx],
                              !.frame_end = FrameEnd(Camera)]
    /\ assigned' = Append(assigned, cameras[cam_idx])
    /\ IF LayerLookupFails(Camera)
       THEN /\ nodes' = <<>>
            /\ links' = {}
            /\ rpc' = "crashed"
            /\ UNCHANGED view_layers
       ELSE /\ nodes' = LoopNodes(1, Camera)
            /\ links' = LoopLinks(1, Camera, 0)
            /\ view_layers' = LoopLayers(Camera)
            /\ rpc' = "render"
    /\ UNCHANGED <<genVars, filepath, cwd_rel, cameras, env_cameras, name,
                   default_frame_end, cam_idx, renders>>

\* Lines 146-149
Render ==
    /\ rpc = "render"
    /\ renders' = Append(renders, [camera |-> scene.camera,
                                   animation |-> scene.frame_end > 1 /\ scene.frame_end < 250,
                                   samples |-> scene.samples])
    /\ cam_idx' = cam_idx + 1
    /\ rpc' = "loop"
    /\ UNCHANGED <<genVars, filepath, cwd_rel, cameras, env_cameras, name,
                   default_frame_end, scene, view_layers, nodes, links, assigned>>

\* The loop of line 66 is exhausted
Finish ==
    /\ rpc = "loop"
    /\ cam_idx > Len(cameras)
    /\ rpc' = "done"
    /\ UNCHANGED <<genVars, filepath, cwd_rel, cameras, env_cameras, name,
                   default_frame_end, cam_idx, scene, view_layers, nodes, links,
                   renders, assigned>>

RenderNext ==
    \/ Setup
    \/ SkipHidden
    \/ SkipFiltered
    \/ ConfigureCamera
    \/ Render
    \/ Finish

\* ------------------------------------------------ files the driver meets
CameraObject(nm, hide, colls, fe) ==
    [name |-> nm, kind |-> "CAMERA", hide_render |-> hide, colls |-> colls, frame_end |-> fe]

ObjectPool ==
    { CameraObject(S_Zero, FALSE, <<0>>, <<>>),
      CameraObject(S_Camera_ \o S_Zero, FALSE, <<1>>, <<100>>),
      CameraObject(S_Camera_ \o <<"1">>, FALSE, <<2>>, <<1>>),
      CameraObject(S_Camera_ \o <<"1">> \o S_noimp, FALSE, <<1>>, <<>>),
      CameraObject(S_Camera_ \o <<"2">>, TRUE, <<3>>, <<>>),
      CameraObject(<<"1", "0">>, FALSE, <<3, 1>>, <<250>>),
      CameraObject(S_Camera_ \o <<"3">>, FALSE, <<>>, <<>>),
      CameraObject(S_Camera_ \o <<"4">>, FALSE, <<4>>, <<>>),
      CameraObject(S_Camera_ \o S_left, FALSE, <<1>>, <<>>),
      [CameraObject(S_Cube, FALSE, <<0>>, <<>>) EXCEPT !.kind = "MESH"] }

\* bpy.data.objects: names are unique
ObjectLists ==
    {s \in UNION {[1..n -> ObjectPool] : n \in 0..MaxObjects} :
        \A i, j \in DOMAIN s : i # j => s[i].name # s[j].name}

ViewLayer(nm, excl, use) ==
    [name |-> nm, use |-> use, exclude |-> excl,
     use_pass_combined |-> TRUE, use_pass_z |-> TRUE, use_pass_mist |-> FALSE]

S_fx == <<"f", "x">>

LayerSetups ==
    { << ViewLayer(S_ViewLayer, {}, TRUE) >>,
      << ViewLayer(S_ViewLayer, {2}, TRUE), ViewLayer(S_fx, {}, FALSE),
         ViewLayer(S_Underscore \o S_fx, {}, TRUE) >>,
      << ViewLayer(S_Underscore \o S_main, {}, TRUE), ViewLayer(S_fx, {1}, TRUE) >>,
      << ViewLayer(S_main, {1, 2, 3}, TRUE), ViewLayer(S_fx, {3}, TRUE) >> }

S_lab_blend == <<"/", "g", "/", "l", "a", "b", ".", "b", "l", "e", "n", "d">>
S_puzzle_blend == <<"/", "g", "/", "p", "u", "z", "z", "l", "e", "s", "/", "p", "1", ".", "b", "l", "e", "n", "d">>
S_Parent == <<".", ".", "/">>

Launches ==
    { [filepath |-> S_lab_blend, cwd_rel |-> <<>>],
      [filepath |-> S_puzzle_blend, cwd_rel |-> <<>>],
      [filepath |-> S_lab_blend, cwd_rel |-> S_Parent] }

StereoViews == <<[name |-> S_left, use |-> TRUE], [name |-> S_right, use |-> TRUE]>>

\* A file as Blender creates it, and one an earlier session of the driver saved
FreshScene(world) ==
    [samples |-> 128, views |-> StereoViews, camera |-> 0, frame_end |-> 250,
     has_world |-> world]

UsedScene(objs) ==
    [samples |-> 4, views |-> StereoViews \o <<[name |-> <<"9">>, use |-> TRUE]>>,
     camera |-> IF objs = <<>> THEN 0 ELSE 1, frame_end |-> 24, has_world |-> TRUE]

UsedNodes ==
    << CompositorNode("CompositorNodeComposite", <<>>, <<>>, <<>>),
       CompositorNode("CompositorNodeRLayers", S_fx, <<>>, <<>>),
       CompositorNode("CompositorNodeOutputFile", <<>>, <<"o", "l", "d">>, S_SlashSlash) >>

UsedLinks == {NodeLink(2, "Image", 1), NodeLink(2, "Image", 3)}

GenIdle ==
    /\ regular_count = RegularCountSetting
    /\ key_angle_factor = KeyAngleFactorSetting
    /\ regular_angle_deg = <<>>
    /\ key_angle_deg = <<>>
    /\ gpc = At("idle")
    /\ run = 0
    /\ meshes = <<>>
    /\ collections = <<>>
    /\ node_groups = <<>>
    /\ nextId = FirstId
    /\ active_coll = 0
    /\ g = G0

InitRender ==
    /\ objects \in ObjectLists
    /\ \E launch \in Launches :
          /\ filepath = launch.filepath
          /\ cwd_rel = launch.cwd_rel
    /\ env_cameras \in {<<>>, <<"1">>}
    /\ view_layers \in LayerSetups
    /\ \/ /\ scene \in {FreshScene(w) : w \in IF objects = <<>> THEN BOOLEAN ELSE {TRUE}}
          /\ nodes = <<>>
          /\ links = {}
       \/ /\ scene = UsedScene(objects)
          /\ nodes = UsedNodes
          /\ links = UsedLinks
    /\ cameras = <<>>
    /\ name = <<>>
    /\ default_frame_end = 0
    /\ rpc = "start"
    /\ cam_idx = 0
    /\ renders = <<>>
    /\ assigned = <<>>

InitR == GenIdle /\ InitRender

SpecRender == InitR /\ [][RenderNext]_vars

\* ================================================ claims: the render driver
\* The camera a render is about to be, or was, triggered for
RenderCamera == objects[scene.camera]

\* C5, as stated: at the moment a render is triggered the sample count is 4 if the
\* camera is literally named "0" and SAMPLES for every other camera.
C5_FourSamplesOnlyForCameraNamedZero ==
    /\ rpc = "render" =>
           scene.samples = IF RenderCamera.name = S_Zero THEN 4 ELSE SAMPLES
    /\ \A i \in DOMAIN renders :
           renders[i].samples = IF objects[renders[i].camera].name = S_Zero THEN 4 ELSE SAMPLES

\* C5, amended: at the moment a render is triggered the sample count is 4 if the
\* camera's name, with a leading "Camera_" removed, is "0" (the camera is named
\* "0" or "Camera_0"), and SAMPLES for every other camera, whatever cameras were
\* processed before it.
C5_FourSamplesForCameraZero ==
    /\ rpc = "render" =>
           scene.samples = IF RenderCamera.name \in {S_Zero, S_Camera_ \o S_Zero}
                           THEN 4 ELSE SAMPLES
    /\ \A i \in DOMAIN renders :
           renders[i].samples = IF objects[renders[i].camera].name \in {S_Zero, S_Camera_ \o S_Zero}
                                THEN 4 ELSE SAMPLES

\* C5 witness: a render is about to be triggered with 4 samples for the camera
\* named Camera_0, after a render with SAMPLES samples for another camera
C5_Witness ==
    /\ rpc = "render"
    /\ RenderCamera.name = S_Camera_ \o S_Zero
    /\ scene.samples = 4
    /\ Len(renders) = 1
    /\ renders[1].samples = SAMPLES

\* C6: in every run of the driver, over any set and order of cameras, a camera
\* whose name contains "-noimp" or whose hide_render flag is set is never assigned
\* as the scene's active camera by the script; once the script has assigned a
\* camera, the scene's camera is the last one it assigned.
C6_SkippedCameraNeverAssigned ==
    /\ \A i \in DOMAIN assigned :
           /\ ~Contains(objects[assigned[i]].name, S_noimp)
           /\ ~objects[assigned[i]].hide_render
    /\ assigned # <<>> => scene.camera = assigned[Len(assigned)]

\* C6 witness: the loop is over; the first camera is hidden from render or tagged
\* -noimp, and only the second was assigned
C6_Witness ==
    /\ rpc = "done"
    /\ Len(cameras) = 2
    /\ objects[cameras[1]].hide_render \/ Contains(objects[cameras[1]].name, S_noimp)
    /\ assigned = <<cameras[2]>>
    /\ scene.camera = cameras[2]

\* The enabled view layers of the scene
EnabledLayers == {i \in DOMAIN view_layers : view_layers[i].use}

\* The render-layers nodes bound to the layer named nm
BoundNodes(nm) ==
    {p \in DOMAIN nodes : nodes[p].type = "CompositorNodeRLayers" /\ nodes[p].layer = nm}

\* The file outputs fed by the given output socket of node p
Outputs(p, socket) ==
    {q \in DOMAIN nodes : nodes[q].type = "CompositorNodeOutputFile"
                            /\ NodeLink(p, socket, q) \in links}

\* renders/S/[L/]<stem>C
PathTemplate(S, L, stem, C) == S_renders \o S \o S_Slash \o L \o stem \o C

LayerDir(i) == IF i = 1 THEN <<>> ELSE view_layers[i].name \o S_Slash

EndsWith(s, p) == Len(s) >= Len(p) /\ SubSeq(s, Len(s) - Len(p) + 1, Len(s)) = p

\* C7, as stated: with S the scene name, C the camera's name and L an enabled view
\* layer, the combined-colour output path is renders/S/L/#_C and the mist output
\* path is renders/S/L/m_#_C when L is not the first view layer, renders/S/#_C and
\* renders/S/m_#_C when it is (a path counts when it ends with the stated one).
C7_PathsUseCameraName ==
    rpc = "render" =>
        \A i \in EnabledLayers :
            \A p \in BoundNodes(view_layers[i].name) :
                /\ \A q \in Outputs(p, "Image") :
                       EndsWith(nodes[q].path,
                                PathTemplate(name, LayerDir(i), S_HashUnderscore, RenderCamera.name))
                /\ \A q \in Outputs(p, "Mist") :
                       EndsWith(nodes[q].path,
                                PathTemplate(name, LayerDir(i), S_MistHash, RenderCamera.name))

\* C7, amended: with S the scene name, C the camera's name with a leading
\* "Camera_" removed and L an enabled view layer, the combined-colour output path
\* is renders/S/L/#_C and the mist output path renders/S/L/m_#_C when L is not the
\* first view layer, renders/S/#_C and renders/S/m_#_C when it is; each path is
\* stored relative to the .blend file: "//", the way from the file's directory to
\* the working directory, then the path; the base path of both outputs is "//".
C7_PathsUseStrippedCameraName ==
    rpc = "render" =>
        \A i \in EnabledLayers :
            /\ BoundNodes(view_layers[i].name) # {}
            /\ \A p \in BoundNodes(view_layers[i].name) :
                /\ Outputs(p, "Image") # {}
                /\ Outputs(p, "Mist") # {}
                /\ \A q \in Outputs(p, "Image") :
                       /\ nodes[q].path = S_SlashSlash \o cwd_rel \o
                              PathTemplate(name, LayerDir(i), S_HashUnderscore,
                                           RemovePrefix(RenderCamera.name, S_Camera_))
                       /\ nodes[q].base_path = S_SlashSlash
                /\ \A q \in Outputs(p, "Mist") :
                       /\ nodes[q].path = S_SlashSlash \o cwd_rel \o
                              PathTemplate(name, LayerDir(i), S_MistHash,
                                           RemovePrefix(RenderCamera.name, S_Camera_))
                       /\ nodes[q].base_path = S_SlashSlash

\* C7 witness: a render is about to be triggered for a camera named Camera_...
\* with the first and another view layer enabled, in a file under puzzles/
C7_Witness ==
    /\ rpc = "render"
    /\ StartsWith(RenderCamera.name, S_Camera_)
    /\ {1, 2} \subseteq EnabledLayers
    /\ StartsWith(name, S_puzzles)
    /\ Len(nodes) = 6

\* The layers the claim calls enabled for the camera: name not starting with "_"
\* and the layer collection of the camera's owning collection not excluded
EnabledFor(camera) ==
    {i \in DOMAIN view_layers :
        /\ view_layers[i].name[1] # "_"
        /\ camera.colls[1] \notin view_layers[i].exclude}

\* C10: after a non-skipped camera is configured and before its render is
\* triggered, the compositor graph has, for every view layer enabled for that
\* camera, exactly one render-layers node bound to it, linked to exactly one
\* combined-colour file output and exactly one mist file output; it has no node
\* for a layer that is not enabled and nothing left over from before: three nodes
\* and two links per enabled layer, every file output fed by exactly one link.
C10_GraphRebuiltPerCamera ==
    rpc = "render" =>
        /\ EnabledLayers = EnabledFor(RenderCamera)
        /\ \A i \in EnabledFor(RenderCamera) :
               /\ Cardinality(BoundNodes(view_layers[i].name)) = 1
               /\ \A p \in BoundNodes(view_layers[i].name) :
                      /\ Cardinality(Outputs(p, "Image")) = 1
                      /\ Cardinality(Outputs(p, "Mist")) = 1
                      /\ Outputs(p, "Image") \cap Outputs(p, "Mist") = {}
        /\ \A i \in DOMAIN view_layers \ EnabledFor(RenderCamera) :
               BoundNodes(view_layers[i].name) = {}
        /\ Len(nodes) = 3 * Cardinality(EnabledFor(RenderCamera))
        /\ Cardinality(links) = 2 * Cardinality(EnabledFor(RenderCamera))
        /\ \A q \in DOMAIN nodes :
               nodes[q].type = "CompositorNodeOutputFile" =>
                   Cardinality({l \in links : l.to = q}) = 1
        /\ \A l \in links : nodes[l.from].type = "CompositorNodeRLayers"

\* C10 witness: the second camera is configured in a file an earlier session left
\* nodes in; one of its three view layers is enabled, the first camera had two
C10_Witness ==
    /\ rpc = "render"
    /\ Len(renders) = 1
    /\ Len(view_layers) = 3
    /\ Cardinality(EnabledFor(RenderCamera)) = 1
    /\ Cardinality(EnabledFor(objects[renders[1].camera])) = 2
    /\ Len(nodes) = 3
    /\ default_frame_end = UsedScene(objects).frame_end

\* The views in use, and the views other than the stereo pair
ViewsInUse == {i \in DOMAIN scene.views : scene.views[i].use}

CameraViews == {i \in DOMAIN scene.views : scene.views[i].name \notin {S_left, S_right}}

\* C11, as stated: once the views are reset for a non-skipped camera, the view
\* list holds a single view in use, named as the camera without its "Camera_"
\* prefix; views of cameras processed before are gone, so there is never more
\* than one camera-named view, and no other view is in use at render time.
C11_SingleCameraNamedView ==
    assigned # <<>> =>
        /\ Cardinality(ViewsInUse) = 1
        /\ \A i \in ViewsInUse :
               scene.views[i].name = RemovePrefix(RenderCamera.name, S_Camera_)
        /\ Cardinality(CameraViews) <= 1
        /\ rpc = "render" => ViewsInUse \subseteq CameraViews

\* C11 witness: the views are reset for the camera named Camera_left after another
\* camera was rendered; left and right are still there, switched off, and the
\* view in use is not named left
C11_Witness ==
    /\ rpc = "render"
    /\ Len(renders) = 1
    /\ RenderCamera.name = S_Camera_ \o S_left
    /\ Len(scene.views) = 3
    /\ scene.views[3].use
    /\ scene.views[3].name = S_left \o NumSuffix(1)
    /\ ~scene.views[1].use /\ scene.views[1].name = S_left

\* The cameras the claim calls not skipped, in the order of bpy.data.objects
NotSkipped(o) ==
    /\ o.kind = "CAMERA"
    /\ ~o.hide_render
    /\ ~Contains(o.name, S_noimp)
    /\ env_cameras # <<>> => Contains(RemovePrefix(o.name, S_Camera_), env_cameras)

ExpectedRenders ==
    LET Renders(i) == NotSkipped(objects[i])
    IN  SelectSeq([i \in 1..Len(objects) |-> i], Renders)

\* The frame range end the claim gives a camera, with the scene's frame_end as
\* it was when the loop started
OwnFrameEnd(o) == IF o.frame_end # <<>> THEN o.frame_end[1] ELSE default_frame_end

ScriptEnded == rpc \in {"done", "crashed"}

\* C12, as stated: the renders triggered are those of the cameras not skipped, one
\* each and in order, each after its camera was made the scene's camera; a render
\* is an animation exactly when the camera's own frame range end (its frame_end
\* property, else the scene's frame_end from before the loop) is greater than 1
\* and less than 250; no skipped camera is rendered; when the script has ended,
\* every camera not skipped has had its render.
C12_OneRenderPerCamera ==
    /\ Len(renders) <= Len(ExpectedRenders)
    /\ \A i \in DOMAIN renders :
           /\ renders[i].camera = ExpectedRenders[i]
           /\ renders[i].animation =
                  (OwnFrameEnd(objects[renders[i].camera]) > 1
                       /\ OwnFrameEnd(objects[renders[i].camera]) < 250)
    /\ ScriptEnded => Len(renders) = Len(ExpectedRenders)

\* C12 witness: the script has ended after one render, with a second camera that
\* is not skipped and was never rendered
C12_Witness ==
    /\ rpc = "crashed"
    /\ Len(renders) = 1
    /\ Len(ExpectedRenders) = 2
    /\ assigned = ExpectedRenders
    /\ scene.camera = ExpectedRenders[2]

\* ================================================ claims: the cutter factories
CuttersBuilt == \A s \in Segs : Len(g.bolt[s]) = 2 /\ Len(g.handle[s]) = 2

Cutters(factory, s) == IF factory = "bolt" THEN g.bolt[s] ELSE g.handle[s]

\* The angular offset of a cutter from the centre of its segment template
CutterOffset(factory, s, i) == objects[Cutters(factory, s)[i]].t

HalfAngle(s) == RDiv(Radians(SegAngle(s)), RInt(2))

\* C13, as stated (the angular part): each factory places both cutters of its pair
\* at an offset from the segment centre that is a fraction of the segment's
\* half-angle: the offset is not zero, lies within the half-angle, is in the same
\* proportion to the half-angle for the regular and the key segment, and so
\* differs between the two when their arc angles differ.
C13_CutterOffsetsFollowHalfAngle ==
    CuttersBuilt =>
        \A factory \in {"bolt", "handle"} : \A i \in 1..2 :
            /\ CutterOffset(factory, "reg", i) # RInt(0)
            /\ CutterOffset(factory, "key", i) # RInt(0)
            /\ RLeq(RAbs(CutterOffset(factory, "reg", i)), HalfAngle("reg"))
            /\ RLeq(RAbs(CutterOffset(factory, "key", i)), HalfAngle("key"))
            /\ RMul(CutterOffset(factory, "reg", i), HalfAngle("key"))
                   = RMul(CutterOffset(factory, "key", i), HalfAngle("reg"))
            /\ HalfAngle("reg") # HalfAngle("key") =>
                   CutterOffset(factory, "reg", i) # CutterOffset(factory, "key", i)

\* C13 witness: all eight cutters are built for segments of different arc angles;
\* the handle cutters sit at three quarters of their half-angles, the bolt
\* cutters of both segments at the centre
C13_Witness ==
    /\ CuttersBuilt
    /\ HalfAngle("reg") # HalfAngle("key")
    /\ \A i \in 1..2 :
           /\ CutterOffset("bolt", "reg", i) = RInt(0)
           /\ CutterOffset("bolt", "key", i) = RInt(0)
           /\ CutterOffset("handle", "reg", i) = RSub(RInt(0), RMul(<<3, 4>>, HalfAngle("reg")))
           /\ CutterOffset("handle", "key", i) = RSub(RInt(0), RMul(<<3, 4>>, HalfAngle("key")))

\* ================================================ claims: the controller inputs
ControllerInputs == objects[g.controller].mods[1].inputs

\* C14: if one of the seven input assignments on the controller's modifier fails,
\* the failure is caught and logged and the script is not aborted: it runs to its
\* end with the Tunnel Controller object existing, linked into the Tunnel
\* collection and carrying the TunnelProcedural modifier bound to the node group
\* just built; the inputs assigned before the failing one keep their values.
C14_InputFailureIsCaught ==
    /\ gpc # At("crashed")
    /\ gpc = At("done") =>
        /\ g.controller \in DOMAIN objects
        /\ objects[g.controller].name = S_TunnelController
        /\ g.coll \in DOMAIN collections
        /\ collections[g.coll].name = S_Tunnel
        /\ g.coll \in objects[g.controller].colls
        /\ Len(objects[g.controller].mods) = 1
        /\ objects[g.controller].mods[1].name = "TunnelProcedural"
        /\ objects[g.controller].mods[1].type = "NODES"
        /\ objects[g.controller].mods[1].node_group = g.ng
        /\ g.ng \in DOMAIN node_groups
        /\ node_groups[g.ng].name = S_TBM_TunnelProcedural
        /\ Len(ControllerInputs) <= 7
        /\ Len(ControllerInputs) < 7 => g.warned
        /\ \A i \in DOMAIN ControllerInputs :
               ControllerInputs[i] =
                   <<g.seg["reg"], g.seg["key"], gn_ring_count, gn_ring_spacing,
                     gn_rot_jitter_deg, gn_pos_jitter, gn_seed>>[i]

\* C14 witness: the script is done after the fourth assignment failed; the warning
\* is logged and the three inputs assigned before it are in place
C14_Witness ==
    /\ gpc = At("done")
    /\ g.warned
    /\ Len(ControllerInputs) = 3
    /\ ControllerInputs[1] = g.seg["reg"]
    /\ ControllerInputs[3] = gn_ring_count
    /\ objects[g.controller].mods[1].node_group = g.ng

====
